---- MODULE Spec2Model ----
(***************************************************************************)
(* A model of jwm's event handling (src/src/event.c): the event loop       *)
(* WaitForEvent with its periodic Signal and fallback chain, ProcessEvent  *)
(* with motion coalescing, the unmap/destroy handlers, the geometry        *)
(* handlers HandleConfigureRequest and HandleNetMoveResize, the border     *)
(* button dispatcher with its double-click tracker, the client messages,   *)
(* and the handlers of map requests, property changes and button events.   *)
(*                                                                         *)
(* Six specifications share the variables:                                 *)
(*   Spec          the event loop fed by the display server's queue        *)
(*   SpecSignal    the same loop with a running clock and no-op events     *)
(*   SpecGeometry  geometry requests applied to the managed clients        *)
(*   SpecBorder    Button1 events on a decoration window                   *)
(*   SpecMessage   client messages and configure requests for a client     *)
(*   SpecWindow    map requests, property changes and button events        *)
(***************************************************************************)
EXTENDS Integers, Sequences, FiniteSets, TLC

VARIABLES
    queue,              \* the display connection's event queue (oldest first)
    nextId,             \* serial number of the next event the server queues
    pc,                 \* "wait": caller about to call WaitForEvent,
                        \* "loop": inside its do-while, "returned", "exited"
    event,              \* the XEvent buffer WaitForEvent and ProcessEvent share
    handled,            \* WaitForEvent's local `handled` after the last pass
    primaryHandled,     \* `handled` as the switch left it, before the chain
    offered,            \* the fallback consumers offered the last event
    shouldExit,         \* the global shutdown flag
    managed,            \* primary windows of the clients in the registry
    mapped,             \* clients with STAT_MAPPED
    controller,         \* clients whose controller hook is not NULL
    mousePos,           \* SetMousePosition's cache
    now,                \* the clock GetCurrentTime reads (ms)
    last,               \* Signal's static `last`
    fired,              \* the firings of Signal's callbacks: how many (0, 1,
                        \* 2 or more) and the clock's reading at the last
    dispatched,         \* the events the last step handed to a handler
    calls,              \* the external calls the last step made, in order
    geom,               \* per client: x, y, width, height of the record
    gravity,            \* per client: np->gravity
    doubleClickActive,  \* DispatchBorderButtonEvent's statics
    lastClickTime,
    lastX,
    lastY,
    armedOn,            \* the decoration whose press armed the tracker last
    serverTime,         \* the timestamp of the last button event
    status,             \* np->state.status of each client: the flags set
    desktop,            \* np->state.desktop of each client
    layer,              \* np->state.layer of each client
    hist,               \* the run of equal client messages handled last:
                        \* its length (1 or 2) and, for a state message,
                        \* the target's status before the run
    focusModel,         \* the configured focus model
    serverGrabbed       \* the display server is grabbed (JXGrabServer)

vars == <<queue, nextId, pc, event, handled, primaryHandled, offered,
          shouldExit, managed, mapped, controller, mousePos, now, last,
          fired, dispatched, calls, geom, gravity, doubleClickActive,
          lastClickTime, lastX, lastY, armedOn, serverTime,
          status, desktop, layer, hist, focusModel, serverGrabbed>>

clockVars == <<now, last, fired>>
geomVars == <<geom, gravity>>
clickVars == <<doubleClickActive, lastClickTime, lastX, lastY, armedOn,
               serverTime>>
statusVars == <<status, desktop, layer, hist>>
serverVars == <<focusModel, serverGrabbed>>

(***************************************************************************)
(* Bounds of the model.                                                    *)
(***************************************************************************)
MaxEvents == 3          \* events the display server queues in one run
MaxQueue == 3           \* events waiting in the queue at one time
MaxClock == 60          \* ms the clock runs past its first reading
MaxCoord == 3           \* recorded positions stay within -MaxCoord..MaxCoord
HintMin == 2            \* the clients' size hints: least width and height
HintMax == 3            \* the clients' size hints: greatest width and height
MaxTime == 4            \* the server's timestamps run from 0 to MaxTime
doubleClickSpeed == 2   \* the configured double-click time (ms)
doubleClickDelta == 1   \* the configured double-click distance (pixels)
desktopCount == 2       \* the configured number of desktops

(***************************************************************************)
(* Program constants and the windows of the model.                         *)
(***************************************************************************)
MIN_TIME_DELTA == 50
ZERO_TIME == 0
ClockStart == 2 * MIN_TIME_DELTA    \* the clock's reading at startup

rootWindow == 0
Windows == {1, 2}                   \* primary (content) windows
Parent(w) == w + 10                 \* np->parent of the client of w
Parents == {Parent(w) : w \in Windows}
OtherWindow == 9                    \* a window no client owns
NoClient == 0                       \* a NULL ClientNode pointer

\* the focus models of the configuration
FOCUS_SLOPPY == "FOCUS_SLOPPY"
FOCUS_CLICK == "FOCUS_CLICK"

\* An X event: its serial, type, window (xany.window), root coordinates
\* (one number stands for the pair), is_hint and message_type.
Ev(id, type, window, pos, hint, atom) ==
    [id |-> id, type |-> type, window |-> window, pos |-> pos,
     hint |-> hint, atom |-> atom]
NoEvent == Ev(0, "None", 0, 0, FALSE, "")

Call(fn, w, a) == [fn |-> fn, w |-> w, a |-> a]

CountCalls(cs, fn) == Cardinality({i \in 1..Len(cs) : cs[i].fn = fn})

(***************************************************************************)
(* The client registry (client.c): lookup by primary window, falling back  *)
(* to the decoration window; lookup by decoration window alone.            *)
(***************************************************************************)
FindClientByParent(w, mgd) ==
    IF \E c \in mgd : Parent(c) = w
    THEN CHOOSE c \in mgd : Parent(c) = w
    ELSE NoClient

FindClientByWindow(w, mgd) ==
    IF w \in mgd THEN w ELSE FindClientByParent(w, mgd)

\* (np->controller)(arg), guarded by `if(np->controller)`
InvokeController(np, ctl, arg) ==
    IF np \in ctl THEN <<Call("controller", np, arg)>> ELSE <<>>

(***************************************************************************)
(* Signal (lines 169-191): the rate-limited periodic callbacks.            *)
(***************************************************************************)
\* timing.c: the distance in ms between two readings of the clock
GetTimeDifference(t1, t2) == IF t1 >= t2 THEN t1 - t2 ELSE t2 - t1

SignalFires_Eager(t, l) == ~(GetTimeDifference(t, l) < MIN_TIME_DELTA - 1)

\* line 178: the early return is taken when this is false
SignalFires(t, l) == ~(GetTimeDifference(t, l) < MIN_TIME_DELTA)

SignalCallbacks(t, pos) ==
    << Call("SignalTaskbar", t, pos), Call("SignalTrayButton", t, pos),
       Call("SignalClock", t, pos), Call("SignalTray", t, pos),
       Call("SignalPopup", t, pos) >>

\* the state a handler works on: the part of the program state the event
\* loop's handlers read and write, with the calls made so far
Signal(s) ==
    IF SignalFires(s.now, s.last)
    THEN [s EXCEPT !.last = s.now,
                   !.fired = [n |-> IF s.fired.n < 2 THEN s.fired.n + 1 ELSE 2,
                              at |-> s.now],
                   !.calls = @ \o SignalCallbacks(s.now, s.mousePos)]
    ELSE s

(***************************************************************************)
(* Xlib's queue operations.                                                *)
(***************************************************************************)
RemoveAt(q, i) == SubSeq(q, 1, i - 1) \o SubSeq(q, i + 1, Len(q))

NextEventIndex_Newest(q) == Len(q)

\* JXNextEvent (line 86) takes the oldest queued event
NextEventIndex(q) == 1

\* the least index of a set of queue positions, 0 when there is none
FirstMatching(S) ==
    IF S = {} THEN 0 ELSE CHOOSE i \in S : \A j \in S : i <= j

\* XCheckTypedEvent: the index of the first queued event of the type, or 0
JXCheckTypedEvent(q, type) ==
    FirstMatching({i \in 1..Len(q) : q[i].type = type})

\* XCheckTypedWindowEvent: the first queued event of the type on the window
JXCheckTypedWindowEvent(q, w, type) ==
    FirstMatching({i \in 1..Len(q) : q[i].type = type /\ q[i].window = w})

(***************************************************************************)
(* HandleDestroyNotify (lines 1005-1028).  `dock` is what HandleDockDestroy *)
(* answers for a window that is no client's.  RemoveClient drops the       *)
(* record, and with it its status and its controller.                      *)
(***************************************************************************)
HandleDestroyNotify(s, ev, dock) ==
    LET np == FindClientByWindow(ev.window, s.managed) IN
    IF np # NoClient /\ np = ev.window
    THEN [s EXCEPT !.calls = @ \o InvokeController(np, s.controller, 1)
                               \o <<Call("RemoveClient", np, 0)>>,
                   !.managed = @ \ {np},
                   !.mapped = @ \ {np},
                   !.controller = @ \ {np},
                   !.handled = TRUE]
    ELSE IF np = NoClient
    THEN [s EXCEPT !.calls = @ \o <<Call("HandleDockDestroy", ev.window, 0)>>,
                   !.handled = dock]
    ELSE [s EXCEPT !.handled = FALSE]

\* an unmap handler that handles the queued destroy and leaves it queued
HandleUnmapNotify_Peek(s, ev, dock) ==
    LET np == FindClientByWindow(ev.window, s.managed)
        i == JXCheckTypedWindowEvent(s.queue, np, "DestroyNotify")
    IN
    IF np # NoClient /\ np = ev.window /\ i # 0
    THEN HandleDestroyNotify(
             [s EXCEPT !.dispatched = @ \o <<[ev |-> s.queue[i],
                                              by |-> "HandleUnmapNotify"]>>],
             s.queue[i], dock)
    ELSE s

(***************************************************************************)
(* HandleUnmapNotify (lines 965-1001).                                     *)
(***************************************************************************)
HandleUnmapNotify(s, ev, dock) ==
    LET np == FindClientByWindow(ev.window, s.managed)
        i == JXCheckTypedWindowEvent(s.queue, np, "DestroyNotify")
    IN
    IF np # NoClient /\ np = ev.window
    THEN IF i # 0
         THEN HandleDestroyNotify(
                  [s EXCEPT !.queue = RemoveAt(s.queue, i),
                            !.dispatched = @ \o <<[ev |-> s.queue[i],
                                                   by |-> "HandleUnmapNotify"]>>],
                  s.queue[i], dock)
         ELSE [s EXCEPT
                 !.calls = @ \o InvokeController(np, s.controller, 1)
                             \o (IF np \in s.mapped
                                 THEN << Call("JXUnmapWindow", Parent(np), 0),
                                         Call("WriteState", np, 0),
                                         Call("UpdateTaskBar", 0, 0),
                                         Call("UpdatePager", 0, 0) >>
                                 ELSE <<>>),
                 !.mapped = @ \ {np}]
    ELSE IF np = NoClient
    THEN [s EXCEPT !.calls = @ \o <<Call("HandleDockDestroy", ev.window, 0)>>]
    ELSE s

(***************************************************************************)
(* HandleClientMessage (lines 598-720), the messages to the root window.   *)
(* Exit and Restart (main.c) raise the shutdown flag.                      *)
(***************************************************************************)
Exit(s) == [s EXCEPT !.shouldExit = TRUE, !.calls = @ \o <<Call("Exit", 0, 0)>>]

HandleRootMessage(s, ev) ==
    IF ev.atom = "JWM_EXIT" THEN Exit(s)
    ELSE s

(***************************************************************************)
(* The geometry handlers.  A client's record holds the position and size   *)
(* of its content window; GetBorderSize (border.c) gives the insets of the *)
(* decoration around it, ConstrainSize (place.c) applies the size hints.   *)
(***************************************************************************)
CWX == 1
CWY == 2
CWWidth == 4
CWHeight == 8
HasBit(m, b) == (m \div b) % 2 = 1

NorthWestGravity == 1
SouthEastGravity == 9
StaticGravity == 10

rootWidth == 3
rootHeight == 3

BorderNorth == 2
BorderSouth == 1
BorderEast == 1
BorderWest == 1
GetBorderSize(np) ==
    [north |-> BorderNorth, south |-> BorderSouth,
     east |-> BorderEast, west |-> BorderWest]

Clamp(v, lo, hi) == IF v < lo THEN lo ELSE IF v > hi THEN hi ELSE v

\* the size-constraint step: width and height are clamped to the hints
ConstrainSize(g) ==
    [g EXCEPT !.width = Clamp(g.width, HintMin, HintMax),
              !.height = Clamp(g.height, HintMin, HintMax)]

\* the gravity-dependent delta of a gravity: none for north-west and
\* static, the decoration's extent for south-east
GravityDelta(grav) ==
    IF grav = SouthEastGravity
    THEN [x |-> BorderWest + BorderEast, y |-> BorderNorth + BorderSouth]
    ELSE [x |-> 0, y |-> 0]

\* GetGravityDelta(np, &deltax, &deltay) is given the client alone
GetGravityDelta(np, grav) == GravityDelta(grav[np])

Geometry(x, y, width, height) ==
    [x |-> x, y |-> y, width |-> width, height |-> height]

\* lines 419-435: the flagged fields that differ are written
MergeRequest(g, ev) ==
    [x |-> IF HasBit(ev.value_mask, CWX) /\ ev.x # g.x THEN ev.x ELSE g.x,
     y |-> IF HasBit(ev.value_mask, CWY) /\ ev.y # g.y THEN ev.y ELSE g.y,
     width |-> IF HasBit(ev.value_mask, CWWidth) /\ ev.width # g.width
               THEN ev.width ELSE g.width,
     height |-> IF HasBit(ev.value_mask, CWHeight) /\ ev.height # g.height
                THEN ev.height ELSE g.height]

\* HandleConfigureRequest (lines 405-474): the record of the client the
\* request names (if any) and the calls made
HandleConfigureRequest(gm, mgd, ctl, ev) ==
    LET np == FindClientByWindow(ev.window, mgd) IN
    IF np # NoClient /\ np = ev.window
    THEN LET merged == MergeRequest(gm[np], ev)
             changed == merged # gm[np]
             b == GetBorderSize(np)
             g == ConstrainSize(merged)
         IN IF ~changed
            THEN [geom |-> gm, calls |-> InvokeController(np, ctl, 0)]
            ELSE [geom |-> [gm EXCEPT ![np] = g],
                  calls |-> InvokeController(np, ctl, 0) \o
                     << Call("JXConfigureWindow", Parent(np),
                             [mask |-> ev.value_mask,
                              g |-> Geometry(g.x, g.y,
                                             g.width + b.east + b.west,
                                             g.height + b.north + b.south)]),
                        Call("JXConfigureWindow", np,
                             [mask |-> ev.value_mask,
                              g |-> Geometry(b.west, b.north,
                                             g.width, g.height)]) >>]
    ELSE [geom |-> gm,
          calls |-> << Call("JXConfigureWindow", ev.window,
                            [mask |-> ev.value_mask,
                             g |-> Geometry(ev.x, ev.y,
                                      IF ev.width > rootWidth
                                      THEN rootWidth ELSE ev.width,
                                      IF ev.height > rootHeight
                                      THEN rootHeight ELSE ev.height)]) >>]

\* HandleNetMoveResize (lines 725-782).  l0 is data.l[0]: the gravity code
\* in its low 8 bits, the flags above them.  The local `gravity` of lines
\* 736 and 757-759 is assigned and never read.
HandleNetMoveResize(gm, grav, np, ev) ==
    LET flags == ev.l0 \div 256
        x == IF HasBit(flags, 1) THEN ev.x ELSE gm[np].x
        y == IF HasBit(flags, 2) THEN ev.y ELSE gm[np].y
        width == IF HasBit(flags, 4) THEN ev.width ELSE gm[np].width
        height == IF HasBit(flags, 8) THEN ev.height ELSE gm[np].height
        b == GetBorderSize(np)
        delta == GetGravityDelta(np, grav)
        g == Geometry(x - delta.x, y - delta.y, width, height)
    IN [geom |-> [gm EXCEPT ![np] = g],
        calls |-> << Call("JXMoveResizeWindow", Parent(np),
                          Geometry(g.x - b.west, g.y - b.north,
                                   g.width + b.east + b.west,
                                   g.height + b.north + b.south)),
                     Call("JXMoveResizeWindow", np,
                          Geometry(b.west, b.north, g.width, g.height)),
                     Call("WriteState", np, 0),
                     Call("SendConfigureEvent", np, 0) >>]

(***************************************************************************)
(* DispatchBorderButtonEvent (lines 1032-1099).  The event carries the     *)
(* border action GetBorderActionType (border.c) finds at its coordinates;  *)
(* `moved` is what MoveClient (move.c) returns.  t is the tracker: the     *)
(* function's statics.                                                     *)
(***************************************************************************)
Abs(v) == IF v < 0 THEN -v ELSE v

Tracker(active, time, x, y) == [active |-> active, time |-> time, x |-> x, y |-> y]

\* a test that leaves out `abs(event->time - lastClickTime) > 0`
IsDoubleClick_ZeroDelta(t, ev) ==
    /\ t.active
    /\ Abs(ev.time - t.time) <= doubleClickSpeed
    /\ Abs(ev.x - t.x) <= doubleClickDelta
    /\ Abs(ev.y - t.y) <= doubleClickDelta

\* lines 1050-1054
IsDoubleClick(t, ev) ==
    /\ t.active
    /\ Abs(ev.time - t.time) > 0
    /\ Abs(ev.time - t.time) <= doubleClickSpeed
    /\ Abs(ev.x - t.x) <= doubleClickDelta
    /\ Abs(ev.y - t.y) <= doubleClickDelta

DispatchBorderButtonEvent(t, ev, np, moved) ==
    LET press == ev.type = "ButtonPress"
        release == ev.type = "ButtonRelease"
        Only(on, c) == [tracker |-> t, calls |-> IF on THEN <<c>> ELSE <<>>]
    IN
    IF ev.ba = "BA_RESIZE" THEN Only(press, Call("ResizeClient", np, 0))
    ELSE IF ev.ba = "BA_MOVE"
    THEN IF ~press THEN Only(FALSE, Call("", 0, 0))
         ELSE IF IsDoubleClick(t, ev)
         THEN [tracker |-> [t EXCEPT !.active = FALSE],
               calls |-> <<Call("MaximizeClient", np, 0)>>]
         ELSE IF moved
         THEN [tracker |-> [t EXCEPT !.active = FALSE],
               calls |-> <<Call("MoveClient", np, 1)>>]
         ELSE [tracker |-> Tracker(TRUE, ev.time, ev.x, ev.y),
               calls |-> <<Call("MoveClient", np, 0)>>]
    ELSE IF ev.ba = "BA_MENU" THEN Only(press, Call("ShowWindowMenu", np, 0))
    ELSE IF ev.ba = "BA_CLOSE" THEN Only(release, Call("DeleteClient", np, 0))
    ELSE IF ev.ba = "BA_MAXIMIZE" THEN Only(release, Call("MaximizeClient", np, 0))
    ELSE IF ev.ba = "BA_MINIMIZE" THEN Only(release, Call("MinimizeClient", np, 0))
    ELSE Only(FALSE, Call("", 0, 0))

(***************************************************************************)
(* HandleClientMessage (lines 598-720) and HandleNetWMState (787-861).     *)
(* c is the part of the clients' records the messages work on:             *)
(* [status, desktop, layer, mapped, geom, calls].  The setters of client.c *)
(* are modelled by the flag or field they set.                             *)
(***************************************************************************)
WIN_STATE_STICKY == 1
WIN_STATE_HIDDEN == 16

WithdrawnState == 0
NormalState == 1
IconicState == 3

Logged(c, fn, np, a) == [c EXCEPT !.calls = @ \o <<Call(fn, np, a)>>]

SetFlag(c, np, f, on) ==
    [c EXCEPT !.status[np] = IF on THEN @ \cup {f} ELSE @ \ {f}]

SetClientSticky(c, np, isSticky) ==
    Logged(SetFlag(c, np, "STAT_STICKY", isSticky = 1),
           "SetClientSticky", np, isSticky)

\* MaximizeClient flips the maximized state
MaximizeClient(c, np) ==
    Logged(SetFlag(c, np, "STAT_MAXIMIZED", "STAT_MAXIMIZED" \notin c.status[np]),
           "MaximizeClient", np, 0)

ShadeClient(c, np) ==
    Logged(SetFlag(c, np, "STAT_SHADED", TRUE), "ShadeClient", np, 0)

UnshadeClient(c, np) ==
    Logged(SetFlag(c, np, "STAT_SHADED", FALSE), "UnshadeClient", np, 0)

SetClientLayer(c, np, l) ==
    Logged([c EXCEPT !.layer[np] = l], "SetClientLayer", np, l)

SetClientDesktop(c, np, d) ==
    Logged([c EXCEPT !.desktop[np] = d], "SetClientDesktop", np, d)

SetClientWithdrawn(c, np) ==
    Logged([SetFlag(c, np, "STAT_MINIMIZED", FALSE)
               EXCEPT !.mapped = @ \ {np}], "SetClientWithdrawn", np, 0)

MinimizeClient(c, np) ==
    Logged([SetFlag(c, np, "STAT_MINIMIZED", TRUE)
               EXCEPT !.mapped = @ \ {np}], "MinimizeClient", np, 0)

RestoreClient(c, np, raise) ==
    Logged([SetFlag(c, np, "STAT_MINIMIZED", FALSE)
               EXCEPT !.mapped = @ \cup {np}], "RestoreClient", np, raise)

\* if(np->controller) (np->controller)(0);
CancelController(c, np, ctl) ==
    [c EXCEPT !.calls = @ \o InvokeController(np, ctl, 0)]

\* lines 799-813
NamesState(ev, atomSet) == ev.a1 \in atomSet \/ ev.a2 \in atomSet

\* a toggle that calls MaximizeClient once for each maximize atom named
ToggleMaximize_PerAtom(c, np, ev) ==
    LET vert == NamesState(ev, {"ATOM_NET_WM_STATE_MAXIMIZED_VERT"})
        horz == NamesState(ev, {"ATOM_NET_WM_STATE_MAXIMIZED_HORZ"})
        c1 == IF vert THEN MaximizeClient(c, np) ELSE c
    IN IF horz THEN MaximizeClient(c1, np) ELSE c1

\* lines 846-848
ToggleMaximize(c, np, ev) ==
    IF NamesState(ev, {"ATOM_NET_WM_STATE_MAXIMIZED_VERT",
                       "ATOM_NET_WM_STATE_MAXIMIZED_HORZ"})
    THEN MaximizeClient(c, np) ELSE c

\* an add/remove that toggles maximize whatever the current state
SetMaximize_Always(c, np, ev, want) ==
    IF NamesState(ev, {"ATOM_NET_WM_STATE_MAXIMIZED_VERT",
                       "ATOM_NET_WM_STATE_MAXIMIZED_HORZ"})
    THEN MaximizeClient(c, np) ELSE c

\* lines 820-822 (want = FALSE) and 831-833 (want = TRUE)
SetMaximize(c, np, ev, want) ==
    IF /\ NamesState(ev, {"ATOM_NET_WM_STATE_MAXIMIZED_VERT",
                          "ATOM_NET_WM_STATE_MAXIMIZED_HORZ"})
       /\ ("STAT_MAXIMIZED" \in c.status[np]) # want
    THEN MaximizeClient(c, np) ELSE c

\* a switch whose default case is the toggle
SwitchAction_DefaultToggle(a) ==
    IF a = 0 THEN "Remove" ELSE IF a = 1 THEN "Add" ELSE "Toggle"

\* switch(event->data.l[0]) (lines 815-860)
SwitchAction(a) ==
    IF a = 0 THEN "Remove" ELSE IF a = 1 THEN "Add"
    ELSE IF a = 2 THEN "Toggle" ELSE "default"

HandleNetWMState(c, np, ev) ==
    LET actionStick == NamesState(ev, {"ATOM_NET_WM_STATE_STICKY"})
        actionShade == NamesState(ev, {"ATOM_NET_WM_STATE_SHADED"})
        action == SwitchAction(ev.l0)
    IN
    IF action = "Remove"
    THEN LET c1 == IF actionStick THEN SetClientSticky(c, np, 0) ELSE c
             c2 == SetMaximize(c1, np, ev, FALSE)
         IN IF actionShade THEN UnshadeClient(c2, np) ELSE c2
    ELSE IF action = "Add"
    THEN LET c1 == IF actionStick THEN SetClientSticky(c, np, 1) ELSE c
             c2 == SetMaximize(c1, np, ev, TRUE)
         IN IF actionShade THEN ShadeClient(c2, np) ELSE c2
    ELSE IF action = "Toggle"
    THEN LET c1 == IF ~actionStick THEN c
                   ELSE IF "STAT_STICKY" \in c.status[np]
                   THEN SetClientSticky(c, np, 0)
                   ELSE SetClientSticky(c, np, 1)
             c2 == ToggleMaximize(c1, np, ev)
         IN IF ~actionShade THEN c2
            ELSE IF "STAT_SHADED" \in c2.status[np]
            THEN UnshadeClient(c2, np)
            ELSE ShadeClient(c2, np)
    ELSE c

\* a legacy-state handler that writes the hidden bit whatever the mask
LegacyHidden_Unmasked(c, np, ev) ==
    Logged(Logged(SetFlag(c, np, "STAT_NOLIST", HasBit(ev.l1, WIN_STATE_HIDDEN)),
                  "UpdateTaskBar", 0, 0), "UpdatePager", 0, 0)

\* lines 621-629
LegacyHidden(c, np, ev) ==
    IF HasBit(ev.l0, WIN_STATE_HIDDEN)
    THEN Logged(Logged(SetFlag(c, np, "STAT_NOLIST",
                               HasBit(ev.l1, WIN_STATE_HIDDEN)),
                       "UpdateTaskBar", 0, 0), "UpdatePager", 0, 0)
    ELSE c

\* lines 608-629
HandleWinState(c, np, ev) ==
    LET c1 == IF HasBit(ev.l0, WIN_STATE_STICKY)
              THEN SetClientSticky(c, np,
                       IF HasBit(ev.l1, WIN_STATE_STICKY) THEN 1 ELSE 0)
              ELSE c
    IN LegacyHidden(c1, np, ev)

\* lines 635-653
HandleChangeState(c, np, ctl, ev) ==
    LET c1 == CancelController(c, np, ctl) IN
    IF ev.l0 = WithdrawnState THEN SetClientWithdrawn(c1, np)
    ELSE IF ev.l0 = IconicState THEN MinimizeClient(c1, np)
    ELSE IF ev.l0 = NormalState THEN RestoreClient(c1, np, 1)
    ELSE c1

\* lines 660-674
HandleNetWMDesktop(c, np, ctl, ev) ==
    IF ev.l0 = -1 THEN SetClientSticky(c, np, 1)
    ELSE LET c1 == CancelController(c, np, ctl) IN
         IF ev.l0 >= 0 /\ ev.l0 < desktopCount
         THEN SetClientDesktop(SetFlag(c1, np, "STAT_STICKY", FALSE),
                               np, ev.l0)
         ELSE c1

\* lines 606-696: a message to the primary window of a client; a message to
\* a window without a client that is not the root and no tray opcode does
\* nothing (the root's messages are HandleRootMessage)
HandleClientMessage(c, mgd, ctl, grav, ev) ==
    LET np == FindClientByWindow(ev.window, mgd)
        t == ev.message_type
    IN
    IF np = NoClient THEN c
    ELSE IF t = "ATOM_WIN_STATE" THEN HandleWinState(c, np, ev)
    ELSE IF t = "ATOM_WIN_LAYER" THEN SetClientLayer(c, np, ev.l0)
    ELSE IF t = "ATOM_WM_CHANGE_STATE" THEN HandleChangeState(c, np, ctl, ev)
    ELSE IF t = "ATOM_NET_ACTIVE_WINDOW"
    THEN Logged(RestoreClient(c, np, 1), "FocusClient", np, 0)
    ELSE IF t = "ATOM_NET_WM_DESKTOP" THEN HandleNetWMDesktop(c, np, ctl, ev)
    ELSE IF t = "ATOM_NET_CLOSE_WINDOW" THEN Logged(c, "DeleteClient", np, 0)
    ELSE IF t = "ATOM_NET_MOVERESIZE_WINDOW"
    THEN LET r == HandleNetMoveResize(c.geom, grav, np, ev)
         IN [c EXCEPT !.geom = r.geom, !.calls = @ \o r.calls]
    ELSE IF t = "ATOM_NET_WM_STATE" THEN HandleNetWMState(c, np, ev)
    ELSE c

(***************************************************************************)
(* ProcessEvent (lines 195-224) and the handlers it calls.                 *)
(***************************************************************************)
SetMousePosition(s, pos) == [s EXCEPT !.mousePos = pos]

\* lines 865-887; the hover cursor of the decoration is not modelled
HandleMotionNotify(s, ev) ==
    IF ev.hint THEN s ELSE SetMousePosition(s, ev.pos)

\* an `if` in place of the `while`: one queued motion event is taken
DrainMotion_Once(s) ==
    LET i == JXCheckTypedEvent(s.queue, "MotionNotify") IN
    IF i = 0 THEN s
    ELSE [s EXCEPT !.event = s.queue[i],
                   !.queue = RemoveAt(s.queue, i),
                   !.calls = @ \o <<Call("JXCheckTypedEvent",
                                         s.queue[i].window, s.queue[i].id)>>]

\* line 212: while(JXCheckTypedEvent(display, MotionNotify, event));
RECURSIVE DrainMotion(_)
DrainMotion(s) ==
    LET i == JXCheckTypedEvent(s.queue, "MotionNotify") IN
    IF i = 0 THEN s
    ELSE DrainMotion([s EXCEPT !.event = s.queue[i],
                               !.queue = RemoveAt(s.queue, i),
                               !.calls = @ \o <<Call("JXCheckTypedEvent",
                                                     s.queue[i].window,
                                                     s.queue[i].id)>>])

\* if(focusModel == FOCUS_CLICK) FocusClient(np);
FocusOnClick(s, np) ==
    IF s.focusModel = FOCUS_CLICK THEN Logged(s, "FocusClient", np, 0) ELSE s

\* lines 255-287: a button event on the decoration of np.  The event
\* carries what MoveClient (move.c) answers for it.
HandleDecorationButton(s, ev, np) ==
    LET r == FocusOnClick(Logged(s, "RaiseClient", np, 0), np) IN
    IF ev.button = 1
    THEN LET d == DispatchBorderButtonEvent(r.tracker, ev, np, ev.moved) IN
         [r EXCEPT !.tracker = d.tracker, !.calls = @ \o d.calls]
    ELSE IF ev.button = 2 THEN Logged(r, "MoveClient", np, 0)
    ELSE IF ev.button = 3 THEN Logged(r, "ShowWindowMenu", np, 0)
    ELSE IF ev.button = 4 THEN ShadeClient(r, np)
    ELSE IF ev.button = 5 THEN UnshadeClient(r, np)
    ELSE r

\* lines 288-295: a press on the root window.  The event carries what
\* ShowRootMenu (root.c) answers for its button.
HandleRootButton(s, ev) ==
    LET r == Logged(s, "ShowRootMenu", rootWindow, ev.button) IN
    IF ev.menu THEN r
    ELSE IF ev.button = 4 THEN Logged(r, "PreviousDesktop", 0, 0)
    ELSE IF ev.button = 5 THEN Logged(r, "NextDesktop", 0, 0)
    ELSE r

\* lines 302-311: what the buttons 1 to 3 do on a client's content window
ContentClick(s, ev, np) ==
    IF ev.button \in {1, 2, 3}
    THEN LET r == FocusOnClick(Logged(s, "RaiseClient", np, 0), np) IN
         IF ev.mod1 THEN Logged(r, "MoveClient", np, 0) ELSE r
    ELSE s

\* a replay inside the case of the buttons 1 to 3
HandleContentButton_ReplayInCase(s, ev, np) ==
    IF ev.button \in {1, 2, 3}
    THEN Logged(ContentClick(s, ev, np), "JXAllowEvents", np, 0)
    ELSE s

\* lines 299-316: a button event on the window of the client np, ended by
\* JXAllowEvents(display, ReplayPointer, CurrentTime)
HandleContentButton(s, ev, np) ==
    Logged(ContentClick(s, ev, np), "JXAllowEvents", np, 0)

\* lines 251-320
HandleButtonEvent(s, ev) ==
    LET np == FindClientByParent(ev.window, s.managed)
        cl == FindClientByWindow(ev.window, s.managed)
        r == IF np # NoClient THEN HandleDecorationButton(s, ev, np)
             ELSE IF ev.window = rootWindow /\ ev.type = "ButtonPress"
             THEN HandleRootButton(s, ev)
             ELSE IF cl # NoClient THEN HandleContentButton(s, ev, cl)
             ELSE s
    IN Logged(r, "UpdatePager", 0, 0)

ProcessEvent(s, ev) ==
    IF ev.type \in {"ButtonPress", "ButtonRelease"}
    THEN HandleButtonEvent(s, ev)
    ELSE IF ev.type = "MotionNotify"
    THEN LET d == DrainMotion(s) IN
         HandleMotionNotify(
             [d EXCEPT !.calls = @ \o <<Call("HandleMotionNotify",
                                             d.event.window, d.event.pos)>>,
                       !.dispatched = @ \o <<[ev |-> d.event,
                                              by |-> "ProcessEvent"]>>],
             d.event)
    ELSE s

(***************************************************************************)
(* HandlePropertyNotify (lines 542-594).  The readers of the property     *)
(* (client.c, icon.c, colormap.c) are logged by name.                      *)
(***************************************************************************)
\* lines 550-579: the calls made for the atom of the event
PropertyReaders(atom) ==
    IF atom \in {"XA_WM_NAME", "ATOM_NET_WM_NAME"} THEN <<"ReadWMName">>
    ELSE IF atom = "XA_WM_NORMAL_HINTS" THEN <<"ReadWMNormalHints">>
    ELSE IF atom = "ATOM_WM_COLORMAP_WINDOWS"
    THEN <<"ReadWMColormaps", "UpdateClientColormap">>
    ELSE IF atom = "ATOM_NET_WM_ICON" THEN <<"LoadIcon">>
    ELSE IF atom \in {"ATOM_NET_WM_STRUT_PARTIAL", "ATOM_NET_WM_STRUT"}
    THEN <<"ReadClientStrut">>
    ELSE <<>>

\* lines 550-579: the atoms that set `changed`
PropertyChanged(atom) ==
    atom \in {"XA_WM_NAME", "XA_WM_NORMAL_HINTS", "ATOM_NET_WM_ICON",
              "ATOM_NET_WM_NAME"}

HandlePropertyNotify(s, ev) ==
    LET np == FindClientByWindow(ev.window, s.managed)
        rd == PropertyReaders(ev.atom)
    IN
    IF np # NoClient
    THEN [s EXCEPT
            !.calls = @ \o [i \in 1..Len(rd) |-> Call(rd[i], np, 0)]
                        \o (IF PropertyChanged(ev.atom)
                            THEN << Call("DrawBorder", np, 0),
                                    Call("UpdateTaskBar", 0, 0),
                                    Call("UpdatePager", 0, 0) >>
                            ELSE <<>>),
            !.handled = "STAT_WMDIALOG" \notin s.status[np]]
    ELSE [s EXCEPT !.handled = TRUE]

(***************************************************************************)
(* HandleMapRequest (lines 921-961).  The event carries what              *)
(* CheckSwallowMap (swallow.c) and AddClientWindow (client.c) answer for   *)
(* its window.                                                             *)
(***************************************************************************)
JXSync(s) == Logged(s, "JXSync", 0, 0)

JXGrabServer(s) ==
    [Logged(s, "JXGrabServer", 0, 0) EXCEPT !.serverGrabbed = TRUE]

JXUngrabServer(s) ==
    [Logged(s, "JXUngrabServer", 0, 0) EXCEPT !.serverGrabbed = FALSE]

\* AddClientWindow(w, 0, 1): on success the window gets a fresh record in
\* the registry and is mapped
AddClientWindow(s, ev) ==
    LET r == Logged(s, "AddClientWindow", ev.window, 0) IN
    IF ev.adopted
    THEN [r EXCEPT !.managed = @ \cup {ev.window},
                   !.mapped = @ \cup {ev.window},
                   !.status[ev.window] = {}]
    ELSE r

\* an adoption that releases the server only when it succeeded
AdoptWindow_UngrabOnSuccess(s, ev) ==
    LET a == AddClientWindow(JXGrabServer(JXSync(s)), ev) IN
    IF ev.adopted
    THEN JXUngrabServer(JXSync(FocusOnClick(a, ev.window)))
    ELSE Logged(a, "JXMapWindow", ev.window, 0)

\* lines 932-944
AdoptWindow(s, ev) ==
    LET a == AddClientWindow(JXGrabServer(JXSync(s)), ev)
        r == IF ev.adopted THEN FocusOnClick(a, ev.window)
             ELSE Logged(a, "JXMapWindow", ev.window, 0)
    IN JXUngrabServer(JXSync(r))

\* lines 946-957: a request for the window of the client np
MapManaged(s, np) ==
    IF np \notin s.mapped
    THEN LET m == [s EXCEPT
                     !.mapped = @ \cup {np},
                     !.status[np] = @ \ {"STAT_MINIMIZED", "STAT_SDESKTOP"},
                     !.calls = @ \o << Call("JXMapWindow", np, 0),
                                       Call("JXMapWindow", Parent(np), 0),
                                       Call("RaiseClient", np, 0) >>]
         IN Logged(Logged(FocusOnClick(m, np), "UpdateTaskBar", 0, 0),
                   "UpdatePager", 0, 0)
    ELSE s

HandleMapRequest(s, ev) ==
    LET np == FindClientByWindow(ev.window, s.managed) IN
    IF ev.swallowed THEN Logged(s, "CheckSwallowMap", ev.window, 1)
    ELSE Logged(IF np = NoClient
                THEN AdoptWindow(Logged(s, "CheckSwallowMap", ev.window, 0), ev)
                ELSE MapManaged(Logged(s, "CheckSwallowMap", ev.window, 0), np),
                "RestackClients", 0, 0)

(***************************************************************************)
(* WaitForEvent (lines 63-165): one pass of its do-while.                  *)
(***************************************************************************)
\* lines 88-148
DispatchEvent(s, ev, dock) ==
    IF ev.type = "MapRequest"
    THEN [HandleMapRequest(s, ev) EXCEPT !.handled = TRUE]
    ELSE IF ev.type = "PropertyNotify"
    THEN HandlePropertyNotify(s, ev)
    ELSE IF ev.type = "UnmapNotify"
    THEN [HandleUnmapNotify(s, ev, dock) EXCEPT !.handled = TRUE]
    ELSE IF ev.type = "DestroyNotify"
    THEN HandleDestroyNotify(s, ev, dock)
    ELSE IF ev.type = "ClientMessage"
    THEN [HandleRootMessage(s, ev) EXCEPT !.handled = TRUE]
    ELSE IF ev.type = "MotionNotify"
    THEN [SetMousePosition(s, ev.pos) EXCEPT !.handled = FALSE]
    ELSE IF ev.type \in {"ConfigureNotify", "CreateNotify", "MapNotify",
                         "ReparentNotify", "GraphicsExpose", "NoExpose"}
    THEN [s EXCEPT !.handled = TRUE]
    ELSE [s EXCEPT !.handled = FALSE]

\* lines 150-161: the fallback consumers, in the order they are asked
Consumers == << "ProcessTrayEvent", "ProcessDialogEvent",
                "ProcessSwallowEvent", "ProcessPopupEvent" >>
ConsumerSet == {Consumers[i] : i \in 1..Len(Consumers)}

\* what the consumers answer when the k-th of them is the one that claims
\* the event (k = 0: every consumer declines)
Answers(k) == [c \in ConsumerSet |-> k # 0 /\ c = Consumers[k]]

RECURSIVE OfferFrom(_, _, _, _)
OfferFrom(i, h, ans, off) ==
    IF i > Len(Consumers) THEN [handled |-> h, offered |-> off]
    ELSE IF ~h
    THEN OfferFrom(i + 1, ans[Consumers[i]], ans,
                   Append(off, [who |-> Consumers[i],
                                claimed |-> ans[Consumers[i]]]))
    ELSE OfferFrom(i + 1, h, ans, off)

\* a chain without the `if(!handled)` guards
FallbackChain_Unguarded(h, ans) ==
    [handled |-> ans[Consumers[Len(Consumers)]],
     offered |-> [i \in 1..Len(Consumers) |->
                     [who |-> Consumers[i], claimed |-> ans[Consumers[i]]]]]

FallbackChain(h, ans) == OfferFrom(1, h, ans, <<>>)

LoopContinues_UntilExit(h, exit) == h \/ ~exit

\* line 163: while(handled && !shouldExit)
LoopContinues(h, exit) == h /\ ~exit

\* lines 84-148: Signal, JXNextEvent, the switch
WaitForEventPass(s, dock) ==
    LET s1 == Signal(s)
        i == NextEventIndex(s1.queue)
        ev == s1.queue[i]
    IN DispatchEvent([s1 EXCEPT !.queue = RemoveAt(s1.queue, i),
                                !.event = ev,
                                !.dispatched = <<[ev |-> ev, by |-> "WaitForEvent"]>>],
                     ev, dock)

(***************************************************************************)
(* The program state as the record the handlers work on, and back.         *)
(***************************************************************************)
Cur ==
    [queue |-> queue, event |-> event, handled |-> handled,
     shouldExit |-> shouldExit, managed |-> managed, mapped |-> mapped,
     controller |-> controller, mousePos |-> mousePos, now |-> now,
     last |-> last, fired |-> fired, dispatched |-> <<>>, calls |-> <<>>,
     status |-> status, focusModel |-> focusModel,
     serverGrabbed |-> serverGrabbed,
     tracker |-> Tracker(doubleClickActive, lastClickTime, lastX, lastY)]

Becomes(s) ==
    /\ queue' = s.queue
    /\ event' = s.event
    /\ shouldExit' = s.shouldExit
    /\ managed' = s.managed
    /\ mapped' = s.mapped
    /\ controller' = s.controller
    /\ mousePos' = s.mousePos
    /\ last' = s.last
    /\ fired' = s.fired
    /\ dispatched' = s.dispatched
    /\ calls' = s.calls
    /\ status' = s.status
    /\ serverGrabbed' = s.serverGrabbed
    /\ doubleClickActive' = s.tracker.active
    /\ lastClickTime' = s.tracker.time
    /\ lastX' = s.tracker.x
    /\ lastY' = s.tracker.y

(***************************************************************************)
(* Actions of the event loop.                                              *)
(***************************************************************************)
\* the events the display server delivers in Spec: lifecycle notifications
\* of the clients, pointer motion over the decorations, a button press on
\* a window no client owns and the exit message to the root window
LoopEvents(id) ==
    { Ev(id, "UnmapNotify", 1, 0, FALSE, ""),
      Ev(id, "DestroyNotify", 1, 0, FALSE, ""),
      Ev(id, "DestroyNotify", 2, 0, FALSE, ""),
      Ev(id, "MotionNotify", Parent(1), 1, FALSE, ""),
      Ev(id, "MotionNotify", Parent(1), 2, FALSE, ""),
      Ev(id, "MotionNotify", Parent(2), 1, FALSE, ""),
      Ev(id, "ButtonPress", OtherWindow, 1, FALSE, ""),
      Ev(id, "ClientMessage", rootWindow, 0, FALSE, "JWM_EXIT") }

\* the display server queues an event
Arrive ==
    /\ pc # "exited"
    /\ nextId <= MaxEvents
    /\ Len(queue) < MaxQueue
    /\ \E e \in LoopEvents(nextId) : queue' = Append(queue, e)
    /\ nextId' = nextId + 1
    /\ dispatched' = <<>>
    /\ calls' = <<>>
    /\ UNCHANGED <<pc, event, handled, primaryHandled, offered, shouldExit,
                   managed, mapped, controller, mousePos>>
    /\ UNCHANGED <<clockVars, geomVars, clickVars, statusVars, serverVars>>

\* lines 74-82: nothing pending and select() times out (or fails)
SelectTimeout ==
    /\ pc \in {"wait", "loop"}
    /\ queue = <<>>
    /\ Becomes(Signal(Cur))
    /\ UNCHANGED <<nextId, pc, handled, primaryHandled, offered, now>>
    /\ UNCHANGED <<geomVars, armedOn, serverTime, desktop, layer, hist,
                   focusModel>>

\* lines 84-163: one pass of the loop over a pending event
WaitForEvent ==
    /\ pc \in {"wait", "loop"}
    /\ queue # <<>>
    /\ \E k \in 0..Len(Consumers), dock \in BOOLEAN :
         LET s == WaitForEventPass(Cur, dock)
             f == FallbackChain(s.handled, Answers(k))
         IN /\ Becomes(s)
            /\ primaryHandled' = s.handled
            /\ handled' = f.handled
            /\ offered' = f.offered
            /\ pc' = IF LoopContinues(f.handled, s.shouldExit)
                     THEN "loop" ELSE "returned"
    /\ UNCHANGED <<nextId, now>>
    /\ UNCHANGED <<geomVars, armedOn, serverTime, desktop, layer, hist,
                   focusModel>>

\* main.c's loop: ProcessEvent on what WaitForEvent returned, then again
\* WaitForEvent unless the shutdown flag is set
EventLoop ==
    /\ pc = "returned"
    /\ Becomes(ProcessEvent(Cur, event))
    /\ pc' = IF shouldExit THEN "exited" ELSE "wait"
    /\ UNCHANGED <<nextId, handled, primaryHandled, offered, now>>
    /\ UNCHANGED <<geomVars, armedOn, serverTime, desktop, layer, hist,
                   focusModel>>

InitClients ==
    /\ managed = Windows
    /\ mapped = Windows
    /\ controller \in {{}, {1}}
    /\ geom = [w \in Windows |->
                  [x |-> 0, y |-> 0, width |-> HintMin, height |-> HintMin]]
    /\ gravity = [w \in Windows |-> NorthWestGravity]

InitClick ==
    /\ doubleClickActive = FALSE
    /\ lastClickTime = 0
    /\ lastX = 0
    /\ lastY = 0
    /\ armedOn = 0
    /\ serverTime = 0

InitStatus ==
    /\ status = [w \in Windows |-> {}]
    /\ desktop = [w \in Windows |-> 0]
    /\ layer = [w \in Windows |-> 0]
    /\ hist = [n |-> 0, before |-> {}]

InitServer ==
    /\ focusModel \in {FOCUS_SLOPPY, FOCUS_CLICK}
    /\ serverGrabbed = FALSE

Init ==
    /\ queue = <<>>
    /\ nextId = 1
    /\ pc = "wait"
    /\ event = NoEvent
    /\ handled = FALSE
    /\ primaryHandled = FALSE
    /\ offered = <<>>
    /\ shouldExit = FALSE
    /\ mousePos = 0
    /\ now = ClockStart
    /\ last = ZERO_TIME
    /\ fired = [n |-> 0, at |-> 0]
    /\ dispatched = <<>>
    /\ calls = <<>>
    /\ InitClients
    /\ InitClick
    /\ InitStatus
    /\ InitServer
    /\ focusModel = FOCUS_CLICK

Next == Arrive \/ SelectTimeout \/ WaitForEvent \/ EventLoop

Spec == Init /\ [][Next]_vars

(***************************************************************************)
(* SpecSignal: the loop with a running clock.  The server delivers only    *)
(* ConfigureNotify events, which the switch claims and ignores.            *)
(***************************************************************************)
TickSteps == {1, MIN_TIME_DELTA - 1}

Tick ==
    /\ \E d \in TickSteps :
         /\ now + d <= ClockStart + MaxClock
         /\ now' = now + d
    /\ dispatched' = <<>>
    /\ calls' = <<>>
    /\ UNCHANGED <<queue, nextId, pc, event, handled, primaryHandled, offered,
                   shouldExit, managed, mapped, controller, mousePos, last,
                   fired>>
    /\ UNCHANGED <<geomVars, clickVars, statusVars, serverVars>>

ArriveNotify ==
    /\ nextId <= MaxEvents
    /\ Len(queue) < MaxQueue
    /\ queue' = Append(queue, Ev(nextId, "ConfigureNotify", 1, 0, FALSE, ""))
    /\ nextId' = nextId + 1
    /\ dispatched' = <<>>
    /\ calls' = <<>>
    /\ UNCHANGED <<pc, event, handled, primaryHandled, offered, shouldExit,
                   managed, mapped, controller, mousePos>>
    /\ UNCHANGED <<clockVars, geomVars, clickVars, statusVars, serverVars>>

NextSignal == Tick \/ ArriveNotify \/ SelectTimeout \/ WaitForEvent

SpecSignal == Init /\ [][NextSignal]_vars

(***************************************************************************)
(* SpecGeometry: configure requests and _NET_MOVERESIZE_WINDOW messages    *)
(* handled one after the other.  A field the request does not flag is 0.   *)
(***************************************************************************)
Flagged(on, v) == IF on THEN v ELSE {0}

\* the requests on the primary window of client 1, and two requests on a
\* window that is no client's
ConfigureRequests ==
    { ev \in [type : {"ConfigureRequest"}, window : {1}, value_mask : 0..15,
              x : {0, 1}, y : {0, 1}, width : {0, HintMax, HintMax + 1},
              height : {0, HintMax + 1}] :
        /\ ev.x \in Flagged(HasBit(ev.value_mask, CWX), {1})
        /\ ev.y \in Flagged(HasBit(ev.value_mask, CWY), {1})
        /\ ev.width \in Flagged(HasBit(ev.value_mask, CWWidth),
                                {HintMax, HintMax + 1})
        /\ ev.height \in Flagged(HasBit(ev.value_mask, CWHeight),
                                 {HintMax + 1}) }
    \cup
    { [type |-> "ConfigureRequest", window |-> OtherWindow,
       value_mask |-> CWX + CWWidth + CWHeight,
       x |-> 1, y |-> 0, width |-> wd, height |-> rootHeight] :
        wd \in {rootWidth, rootWidth + 1} }

\* the _NET_MOVERESIZE_WINDOW messages to client 1
MoveResizeRequests ==
    { ev \in [type : {"ClientMessage"}, window : {1},
              l0 : {gc + 256 * f : gc \in {0, StaticGravity}, f \in 0..15},
              x : {0, 1}, y : {0, 1}, width : {0, HintMax + 1},
              height : {0, HintMax + 1}] :
        /\ ev.x \in Flagged(HasBit(ev.l0 \div 256, 1), {1})
        /\ ev.y \in Flagged(HasBit(ev.l0 \div 256, 2), {1})
        /\ ev.width \in Flagged(HasBit(ev.l0 \div 256, 4), {HintMax + 1})
        /\ ev.height \in Flagged(HasBit(ev.l0 \div 256, 8), {HintMax + 1}) }

InRange(g) ==
    /\ g.x \in -MaxCoord..MaxCoord
    /\ g.y \in -MaxCoord..MaxCoord

ConfigureRequest ==
    /\ \E ev \in ConfigureRequests :
         /\ LET r == HandleConfigureRequest(geom, managed, controller, ev) IN
              /\ geom' = r.geom
              /\ calls' = r.calls
         /\ event' = ev
    /\ UNCHANGED <<queue, nextId, pc, handled, primaryHandled, offered,
                   shouldExit, managed, mapped, controller, mousePos,
                   dispatched, gravity>>
    /\ UNCHANGED <<clockVars, clickVars, statusVars, serverVars>>

NetMoveResize ==
    /\ \E ev \in MoveResizeRequests :
         /\ FindClientByWindow(ev.window, managed) # NoClient
         /\ LET r == HandleNetMoveResize(geom, gravity,
                        FindClientByWindow(ev.window, managed), ev) IN
              /\ InRange(r.geom[ev.window])
              /\ geom' = r.geom
              /\ calls' = r.calls
         /\ event' = ev
    /\ UNCHANGED <<queue, nextId, pc, handled, primaryHandled, offered,
                   shouldExit, managed, mapped, controller, mousePos,
                   dispatched, gravity>>
    /\ UNCHANGED <<clockVars, clickVars, statusVars, serverVars>>

InitGeometry ==
    /\ queue = <<>>
    /\ nextId = 1
    /\ pc = "wait"
    /\ event = NoEvent
    /\ handled = FALSE
    /\ primaryHandled = FALSE
    /\ offered = <<>>
    /\ shouldExit = FALSE
    /\ mousePos = 0
    /\ now = ClockStart
    /\ last = ZERO_TIME
    /\ fired = [n |-> 0, at |-> 0]
    /\ dispatched = <<>>
    /\ calls = <<>>
    /\ managed = Windows
    /\ mapped = Windows
    /\ controller = {1}
    /\ geom = [w \in Windows |->
                  [x |-> 0, y |-> 0, width |-> HintMin, height |-> HintMin]]
    /\ gravity \in [Windows -> {NorthWestGravity, SouthEastGravity}]
    /\ gravity[2] = NorthWestGravity
    /\ InitClick
    /\ InitStatus
    /\ InitServer
    /\ focusModel = FOCUS_CLICK

NextGeometry == ConfigureRequest \/ NetMoveResize

SpecGeometry == InitGeometry /\ [][NextGeometry]_vars

(***************************************************************************)
(* SpecBorder: Button1 events on the decorations of the clients, handed to *)
(* DispatchBorderButtonEvent as HandleButtonEvent does at line 263.        *)
(***************************************************************************)
BorderActions == {"BA_NONE", "BA_RESIZE", "BA_MOVE", "BA_MENU", "BA_CLOSE",
                  "BA_MAXIMIZE", "BA_MINIMIZE"}

Button(type, w, x, y, time, ba) ==
    [type |-> type, window |-> w, x |-> x, y |-> y, time |-> time, ba |-> ba]

\* presses on the move area at several places and times, and presses and
\* releases on every border action at one place
BorderButtonEvents(t) ==
    { Button("ButtonPress", w, x, y, t, "BA_MOVE") :
        w \in Parents, x \in {0, 1}, y \in {0, 2} }
    \cup
    { Button(ty, Parent(1), 0, 0, t, ba) :
        ty \in {"ButtonPress", "ButtonRelease"}, ba \in BorderActions }

TimeSteps == {0, 1, doubleClickSpeed, doubleClickSpeed + 1}

BorderButton ==
    /\ \E d \in TimeSteps, moved \in BOOLEAN :
         /\ serverTime + d <= MaxTime
         /\ \E ev \in BorderButtonEvents(serverTime + d) :
              LET np == FindClientByParent(ev.window, managed)
                  r == DispatchBorderButtonEvent(
                           Tracker(doubleClickActive, lastClickTime, lastX, lastY),
                           ev, np, moved)
              IN /\ np # NoClient
                 /\ doubleClickActive' = r.tracker.active
                 /\ lastClickTime' = r.tracker.time
                 /\ lastX' = r.tracker.x
                 /\ lastY' = r.tracker.y
                 /\ armedOn' = IF r.tracker.active /\ r.calls # <<>>
                               THEN ev.window ELSE armedOn
                 /\ calls' = r.calls
                 /\ event' = ev
                 /\ serverTime' = ev.time
    /\ UNCHANGED <<queue, nextId, pc, handled, primaryHandled, offered,
                   shouldExit, managed, mapped, controller, mousePos,
                   dispatched>>
    /\ UNCHANGED <<clockVars, geomVars, statusVars, serverVars>>

NextBorder == BorderButton

SpecBorder == Init /\ [][NextBorder]_vars

(***************************************************************************)
(* SpecMessage: client messages and configure requests for client 1 (and   *)
(* a message to a window without a client), dispatched as WaitForEvent's   *)
(* switch does (lines 89-103).                                             *)
(***************************************************************************)
Msg(w, t, l0, l1) ==
    [type |-> "ClientMessage", window |-> w, message_type |-> t,
     l0 |-> l0, l1 |-> l1]

\* a wm-state message: the action and the atoms of data.l[1] and data.l[2]
StateMsg(w, action, a1, a2) ==
    [type |-> "ClientMessage", window |-> w,
     message_type |-> "ATOM_NET_WM_STATE", l0 |-> action, a1 |-> a1, a2 |-> a2]

\* the pairs of state atoms a wm-state message names ("None": no atom)
StatePairs ==
    { <<"ATOM_NET_WM_STATE_MAXIMIZED_VERT", "None">>,
      <<"ATOM_NET_WM_STATE_SHADED", "None">>,
      <<"ATOM_NET_WM_STATE_MAXIMIZED_VERT", "ATOM_NET_WM_STATE_MAXIMIZED_HORZ">>,
      <<"ATOM_NET_WM_STATE_STICKY", "ATOM_NET_WM_STATE_MAXIMIZED_HORZ">>,
      <<"ATOM_NET_WM_STATE_STICKY", "ATOM_NET_WM_STATE_SHADED">>,
      <<"None", "ATOM_NET_WM_STATE_STICKY">> }

LegacyBits == {0, WIN_STATE_STICKY, WIN_STATE_HIDDEN,
               WIN_STATE_STICKY + WIN_STATE_HIDDEN}

ClientMessages ==
    { StateMsg(1, a, pr[1], pr[2]) : a \in 0..3, pr \in StatePairs }
    \cup { Msg(1, "ATOM_WIN_STATE", m, f) :
             m \in LegacyBits \ {0}, f \in LegacyBits }
    \cup { Msg(1, "ATOM_WIN_LAYER", 1, 0) }
    \cup { Msg(1, "ATOM_WM_CHANGE_STATE", st, 0) :
             st \in {WithdrawnState, NormalState, IconicState, 2} }
    \cup { Msg(1, "ATOM_NET_WM_DESKTOP", d, 0) :
             d \in {-1, 0, desktopCount - 1, desktopCount} }
    \cup { Msg(1, t, 0, 0) :
             t \in {"ATOM_NET_ACTIVE_WINDOW", "ATOM_NET_CLOSE_WINDOW",
                    "ATOM_WM_PROTOCOLS"} }
    \cup { Msg(OtherWindow, "ATOM_WIN_LAYER", 1, 0) }
    \cup { [type |-> "ClientMessage", window |-> 1,
            message_type |-> "ATOM_NET_MOVERESIZE_WINDOW",
            l0 |-> 256, x |-> 1, y |-> 0, width |-> 0, height |-> 0] }

\* the configure requests of SpecMessage: a move of client 1
MessageConfigureRequests ==
    { [type |-> "ConfigureRequest", window |-> 1, value_mask |-> CWX,
       x |-> 0, y |-> 0, width |-> 0, height |-> 0] }

IsStateMessage(ev) ==
    /\ ev.type = "ClientMessage"
    /\ ev.message_type \in {"ATOM_NET_WM_STATE", "ATOM_WIN_STATE"}

\* the run of equal messages once ev is handled on a client of status st
NextHist(h, old, ev, st) ==
    IF ev = old /\ h.n = 1
    THEN [n |-> 2, before |-> h.before]
    ELSE [n |-> 1, before |-> IF IsStateMessage(ev) THEN st ELSE {}]

ClientRequest ==
    /\ \E ev \in ClientMessages \cup MessageConfigureRequests :
         LET c == [status |-> status, desktop |-> desktop, layer |-> layer,
                   mapped |-> mapped, geom |-> geom, calls |-> <<>>]
             cfg == HandleConfigureRequest(geom, managed, controller, ev)
             r == IF ev.type = "ConfigureRequest"
                  THEN [c EXCEPT !.geom = cfg.geom, !.calls = cfg.calls]
                  ELSE HandleClientMessage(c, managed, controller, gravity, ev)
             w == IF ev.window \in Windows THEN ev.window ELSE 1
         IN /\ status' = r.status
            /\ desktop' = r.desktop
            /\ layer' = r.layer
            /\ mapped' = r.mapped
            /\ geom' = r.geom
            /\ calls' = r.calls
            /\ event' = ev
            /\ hist' = NextHist(hist, event, ev, status[w])
    /\ UNCHANGED <<queue, nextId, pc, handled, primaryHandled, offered,
                   shouldExit, managed, controller, mousePos, dispatched,
                   gravity>>
    /\ UNCHANGED <<clockVars, clickVars, serverVars>>

NextMessage == ClientRequest

InitMessage ==
    /\ Init
    /\ controller = {1}

SpecMessage == InitMessage /\ [][NextMessage]_vars

(***************************************************************************)
(* SpecWindow: map requests, property notifications, lifecycle             *)
(* notifications and button events, each delivered to an idle display      *)
(* connection and taken through one pass of WaitForEvent; what the pass    *)
(* returns goes to ProcessEvent.  Client 2 is a window-manager dialog.     *)
(***************************************************************************)
MapEv(w, swallowed, adopted) ==
    [id |-> 0, type |-> "MapRequest", window |-> w, pos |-> 0,
     hint |-> FALSE, atom |-> "", swallowed |-> swallowed,
     adopted |-> adopted]

ButtonEv(type, w, button, mod1, time, ba, moved, menu) ==
    [id |-> 0, type |-> type, window |-> w, pos |-> 0, hint |-> FALSE,
     atom |-> "", button |-> button, mod1 |-> mod1, x |-> 0, y |-> 0,
     time |-> time, ba |-> ba, moved |-> moved, menu |-> menu]

\* requests for window 1, adopted or not by AddClientWindow or swallowed,
\* and a request for a window that cannot be adopted
MapRequests ==
    { MapEv(1, FALSE, a) : a \in BOOLEAN }
    \cup { MapEv(1, TRUE, FALSE), MapEv(OtherWindow, FALSE, FALSE) }

PropertyAtoms ==
    {"XA_WM_NAME", "XA_WM_NORMAL_HINTS", "XA_WM_HINTS",
     "ATOM_WM_COLORMAP_WINDOWS", "ATOM_NET_WM_ICON", "ATOM_NET_WM_NAME",
     "ATOM_NET_WM_STRUT"}

PropertyNotifies ==
    { Ev(0, "PropertyNotify", w, 0, FALSE, a) :
        w \in Windows, a \in PropertyAtoms }
    \cup { Ev(0, "PropertyNotify", OtherWindow, 0, FALSE, "XA_WM_NAME") }

LifecycleNotifies ==
    { Ev(0, "UnmapNotify", 1, 0, FALSE, ""),
      Ev(0, "DestroyNotify", 1, 0, FALSE, "") }

ButtonTypes == {"ButtonPress", "ButtonRelease"}

\* button events stamped t: every button, type and modifier state on the
\* content window of client 1, the buttons of the decoration, the root
\* window and a window that is no client's.  The events of SpecWindow
\* carry one timestamp: sequences of timed presses are SpecBorder's.
ButtonEvents(t) ==
    { ButtonEv(ty, 1, b, m, t, "BA_NONE", FALSE, FALSE) :
        ty \in ButtonTypes, b \in 1..6, m \in BOOLEAN }
    \cup { ButtonEv("ButtonPress", Parent(1), 1, FALSE, t, "BA_MOVE", mv, FALSE) :
             mv \in BOOLEAN }
    \cup { ButtonEv("ButtonPress", Parent(1), b, FALSE, t, "BA_NONE", FALSE, FALSE) :
             b \in 2..6 }
    \cup { ButtonEv("ButtonRelease", Parent(1), 1, FALSE, t, "BA_MAXIMIZE", FALSE, FALSE) }
    \cup { ButtonEv("ButtonPress", rootWindow, b, FALSE, t, "BA_NONE", FALSE, b = 1) :
             b \in {1, 4, 5} }
    \cup { ButtonEv("ButtonRelease", rootWindow, 1, FALSE, t, "BA_NONE", FALSE, FALSE),
           ButtonEv("ButtonPress", OtherWindow, 1, FALSE, t, "BA_NONE", FALSE, FALSE) }

WindowEvents(t) ==
    MapRequests \cup PropertyNotifies \cup LifecycleNotifies
    \cup ButtonEvents(t)

\* the fallback consumers' answers tried: all decline, or the first claims
ClaimedBy == {0, 1}

\* the display server delivers an event and WaitForEvent makes one pass
\* over it (lines 84-163)
DeliverEvent ==
    /\ pc \in {"wait", "loop"}
    /\ queue = <<>>
    /\ \E ev \in WindowEvents(serverTime), k \in ClaimedBy :
       \E dock \in IF ev.type = "DestroyNotify" THEN BOOLEAN ELSE {FALSE} :
         LET s == WaitForEventPass([Cur EXCEPT !.queue = <<ev>>], dock)
             f == FallbackChain(s.handled, Answers(k))
         IN /\ Becomes(s)
            /\ primaryHandled' = s.handled
            /\ handled' = f.handled
            /\ offered' = f.offered
            /\ pc' = IF LoopContinues(f.handled, s.shouldExit)
                     THEN "loop" ELSE "returned"
    /\ UNCHANGED <<nextId, now>>
    /\ UNCHANGED <<geomVars, armedOn, serverTime, desktop, layer, hist,
                   focusModel>>

InitWindow ==
    /\ queue = <<>>
    /\ nextId = 1
    /\ pc = "wait"
    /\ event = NoEvent
    /\ handled = FALSE
    /\ primaryHandled = FALSE
    /\ offered = <<>>
    /\ shouldExit = FALSE
    /\ mousePos = 0
    /\ now = ClockStart
    /\ last = ZERO_TIME
    /\ fired = [n |-> 0, at |-> 0]
    /\ dispatched = <<>>
    /\ calls = <<>>
    /\ InitClients
    /\ controller = {}
    /\ InitClick
    /\ status = [w \in Windows |-> IF w = 2 THEN {"STAT_WMDIALOG"} ELSE {}]
    /\ desktop = [w \in Windows |-> 0]
    /\ layer = [w \in Windows |-> 0]
    /\ hist = [n |-> 0, before |-> {}]
    /\ InitServer

NextWindow == DeliverEvent \/ EventLoop

SpecWindow == InitWindow /\ [][NextWindow]_vars

(***************************************************************************)
(* The claims about the event loop (Spec).                                 *)
(***************************************************************************)
NonMotion(e) == e.type # "MotionNotify"
IsMotion(e) == e.type = "MotionNotify"

\* C1 as stated: WaitForEvent returns only when the shutdown flag is set and
\* the event it read last was claimed by no handler.
C1_ReturnsOnlyOnExitAndUnclaimed ==
    pc = "returned" => (shouldExit /\ ~handled)

\* C1 amended: WaitForEvent returns as soon as the event it read last was
\* claimed neither by its primary handler nor by any fallback consumer, or
\* the shutdown flag is set; it goes on reading and dispatching exactly
\* while the last event was claimed and the flag is not set.
C1_ReturnsWhenUnclaimedOrExit ==
    /\ pc = "returned" => (~handled \/ shouldExit)
    /\ pc = "loop" => (handled /\ ~shouldExit)

C1_Witness ==
    /\ pc = "returned"
    /\ ~shouldExit
    /\ ~handled
    /\ event.type = "ButtonPress"
    /\ Len(offered) = Len(Consumers)

\* C2 as stated: no non-motion event is handled while a non-motion event
\* that was queued ahead of it is still waiting in the queue.
C2_ArrivalOrder ==
    \A i \in 1..Len(dispatched), j \in 1..Len(queue) :
        (NonMotion(dispatched[i].ev) /\ NonMotion(queue[j]))
            => dispatched[i].ev.id < queue[j].id

\* C2 amended: non-motion events are handled in arrival order, except that
\* handling an UnmapNotify for a client's primary window takes the first
\* queued DestroyNotify for that window out of the queue and handles it at
\* once, ahead of the events queued before it.
C2_ArrivalOrderButDestroy ==
    \A i \in 1..Len(dispatched), j \in 1..Len(queue) :
        (/\ NonMotion(dispatched[i].ev)
         /\ NonMotion(queue[j])
         /\ dispatched[i].ev.id > queue[j].id)
            => /\ i = 2
               /\ dispatched[i].by = "HandleUnmapNotify"
               /\ dispatched[i].ev.type = "DestroyNotify"
               /\ dispatched[1].ev.type = "UnmapNotify"
               /\ dispatched[1].ev.window = dispatched[i].ev.window
               /\ dispatched[1].ev.id < queue[j].id

C2_Witness ==
    /\ Len(dispatched) = 2
    /\ dispatched[2].by = "HandleUnmapNotify"
    /\ \E j \in 1..Len(queue) :
          NonMotion(queue[j]) /\ queue[j].id < dispatched[2].ev.id

\* the step of WaitForEvent that reads an UnmapNotify for a managed
\* client's primary window while a DestroyNotify for it is queued
UnmapWithQueuedDestroy ==
    /\ pc \in {"wait", "loop"}
    /\ queue # <<>>
    /\ Head(queue).type = "UnmapNotify"
    /\ Head(queue).window \in managed
    /\ JXCheckTypedWindowEvent(Tail(queue), Head(queue).window, "DestroyNotify") # 0
    /\ event' = Head(queue)

\* C3: when an unmap of a managed client's primary window is handled while a
\* destroy of the same window is queued, the destroy leaves the queue and
\* is handled in the unmap's place: the client is removed once, its
\* controller (if it has one) is invoked once, with argument 1, none of the
\* unmap's effects occur, and the destroy is not left to be dispatched again.
C3_UnmapThenDestroyIsOneDestroy ==
    [][UnmapWithQueuedDestroy =>
        LET w == Head(queue).window
            i == JXCheckTypedWindowEvent(Tail(queue), w, "DestroyNotify")
            d == Tail(queue)[i]
        IN /\ queue' = RemoveAt(Tail(queue), i)
           /\ \A j \in 1..Len(queue') : queue'[j].id # d.id
           /\ w \notin managed'
           /\ CountCalls(calls', "RemoveClient") = 1
           /\ \A j \in 1..Len(calls') :
                 calls'[j].fn \in {"RemoveClient", "controller"}
                     => calls'[j].w = w
           /\ CountCalls(calls', "controller") = (IF w \in controller THEN 1 ELSE 0)
           /\ \A j \in 1..Len(calls') :
                 calls'[j].fn = "controller" => calls'[j].a = 1
           /\ \A j \in 1..Len(calls') :
                 calls'[j].fn \notin {"JXUnmapWindow", "WriteState",
                                      "UpdateTaskBar", "UpdatePager"}
           /\ dispatched' = << [ev |-> Head(queue), by |-> "WaitForEvent"],
                               [ev |-> d, by |-> "HandleUnmapNotify"] >>
           /\ handled'
    ]_vars

C3_Witness ==
    /\ Len(dispatched) = 2
    /\ dispatched[1].ev.type = "UnmapNotify"
    /\ dispatched[2].ev.type = "DestroyNotify"
    /\ dispatched[2].ev.id > dispatched[1].ev.id + 1
    /\ CountCalls(calls, "controller") = 1
    /\ CountCalls(calls, "RemoveClient") = 1
    /\ queue # <<>>

\* C5: the fallback consumers are offered an event only if the primary
\* handler did not claim it, in the order tray, dialog, swallow, popup; a
\* consumer is offered it only if every earlier one declined, and none is
\* offered it after one has claimed it.
C5_FallbackOrder ==
    /\ primaryHandled => (offered = <<>> /\ handled)
    /\ Len(offered) <= Len(Consumers)
    /\ \A i \in 1..Len(offered) :
          /\ offered[i].who = Consumers[i]
          /\ i < Len(offered) => ~offered[i].claimed
    /\ (event # NoEvent /\ ~primaryHandled) =>
          /\ offered # <<>>
          /\ handled = offered[Len(offered)].claimed
          /\ ~handled => Len(offered) = Len(Consumers)

C5_Witness ==
    /\ ~primaryHandled
    /\ Len(offered) = 3
    /\ offered[3].claimed
    /\ handled

\* the step in which ProcessEvent is given a motion event
ProcessMotionStep ==
    /\ pc = "returned"
    /\ IsMotion(event)
    /\ pc' # "returned"

MotionEventsOf(q) == SelectSeq(q, IsMotion)

\* C6 as stated: the one HandleMotionNotify dispatch uses the last queued
\* motion event of the window of the event ProcessEvent was given, and the
\* queued motion events of other windows stay queued.
C6_SameSourceOnly ==
    [][ProcessMotionStep =>
        LET SameSource(e) == IsMotion(e) /\ e.window = event.window
            OtherSource(e) == ~SameSource(e)
            same == SelectSeq(queue, SameSource)
        IN /\ CountCalls(calls', "HandleMotionNotify") = 1
           /\ event' = IF same = <<>> THEN event ELSE same[Len(same)]
           /\ queue' = SelectSeq(queue, OtherSource)
    ]_vars

\* C6 amended: when ProcessEvent receives a motion event, exactly one
\* HandleMotionNotify dispatch occurs; it uses the last motion event in the
\* queue, whichever window that event belongs to (the event received, when
\* no motion event is queued); every queued motion event is taken out of
\* the queue, whatever its window, and the other events stay in order.
C6_LastMotionOfAnyWindow ==
    [][ProcessMotionStep =>
        LET m == MotionEventsOf(queue)
            sample == IF m = <<>> THEN event ELSE m[Len(m)]
        IN /\ CountCalls(calls', "HandleMotionNotify") = 1
           /\ calls'[Len(calls')]
                 = Call("HandleMotionNotify", sample.window, sample.pos)
           /\ event' = sample
           /\ dispatched' = <<[ev |-> sample, by |-> "ProcessEvent"]>>
           /\ queue' = SelectSeq(queue, NonMotion)
    ]_vars

C6_Witness ==
    /\ pc = "wait"
    /\ CountCalls(calls, "HandleMotionNotify") = 1
    /\ CountCalls(calls, "JXCheckTypedEvent") = 2
    /\ calls[1].w # calls[2].w

(***************************************************************************)
(* The claims about the geometry handlers (SpecGeometry).                  *)
(***************************************************************************)
\* the step that handles a configure request on a client's primary window
ConfigureStep ==
    /\ event'.type = "ConfigureRequest"
    /\ event'.window \in managed

IsDisplayCall(c) == c.fn # "controller"

\* C7: HandleConfigureRequest on a client's primary window writes into the
\* record only the fields whose bit is set in the value mask; when a flagged
\* field differs from the record it issues exactly two configure calls, on
\* the decoration (content size plus insets) and then on the content window
\* (at the west/north inset); when none differs it issues no display call.
C7_ConfigureWritesFlaggedFieldsOnly ==
    [][ConfigureStep =>
        LET ev == event'
            w == ev.window
            old == geom[w]
            new == geom'[w]
            b == GetBorderSize(w)
            differs == \/ HasBit(ev.value_mask, CWX) /\ ev.x # old.x
                       \/ HasBit(ev.value_mask, CWY) /\ ev.y # old.y
                       \/ HasBit(ev.value_mask, CWWidth) /\ ev.width # old.width
                       \/ HasBit(ev.value_mask, CWHeight) /\ ev.height # old.height
            display == SelectSeq(calls', IsDisplayCall)
        IN /\ ~HasBit(ev.value_mask, CWX) => new.x = old.x
           /\ ~HasBit(ev.value_mask, CWY) => new.y = old.y
           /\ ~HasBit(ev.value_mask, CWWidth) => new.width = old.width
           /\ ~HasBit(ev.value_mask, CWHeight) => new.height = old.height
           /\ differs =>
                display =
                  << Call("JXConfigureWindow", Parent(w),
                          [mask |-> ev.value_mask,
                           g |-> Geometry(new.x, new.y,
                                          new.width + b.east + b.west,
                                          new.height + b.north + b.south)]),
                     Call("JXConfigureWindow", w,
                          [mask |-> ev.value_mask,
                           g |-> Geometry(b.west, b.north,
                                          new.width, new.height)]) >>
           /\ ~differs => (display = <<>> /\ new = old)
    ]_vars

\* the step that handles a _NET_MOVERESIZE_WINDOW message
MoveResizeStep ==
    /\ event'.type = "ClientMessage"
    /\ event'.window \in managed

\* C8: in HandleNetMoveResize each of x, y, width, height whose flag bit
\* (bits 8 to 11 of data.l[0]) is clear keeps the client's recorded value.
C8_UnflaggedFieldsKeepRecordedValue ==
    [][MoveResizeStep =>
        LET ev == event'
            f == ev.l0 \div 256
            old == geom[ev.window]
            new == geom'[ev.window]
        IN /\ ~HasBit(f, 1) => new.x = old.x
           /\ ~HasBit(f, 2) => new.y = old.y
           /\ ~HasBit(f, 4) => new.width = old.width
           /\ ~HasBit(f, 8) => new.height = old.height
    ]_vars

\* C9: the position HandleNetMoveResize records is the requested position
\* less the gravity delta of the gravity code in the low 8 bits of
\* data.l[0], the window's own gravity standing in only for code 0; with a
\* delta of (0,0) it is the requested position itself.
C9_DeltaOfRequestedGravity ==
    [][MoveResizeStep =>
        LET ev == event'
            w == ev.window
            f == ev.l0 \div 256
            code == ev.l0 % 256
            d == GravityDelta(IF code = 0 THEN gravity[w] ELSE code)
            reqx == IF HasBit(f, 1) THEN ev.x ELSE geom[w].x
            reqy == IF HasBit(f, 2) THEN ev.y ELSE geom[w].y
        IN /\ geom'[w].x = reqx - d.x
           /\ geom'[w].y = reqy - d.y
    ]_vars

(***************************************************************************)
(* The claim about Signal (SpecSignal).                                    *)
(***************************************************************************)
\* C4: two consecutive firings of the periodic callbacks are at least
\* MIN_TIME_DELTA ms apart on the clock Signal reads; a call of Signal less
\* than MIN_TIME_DELTA ms after the last firing invokes no callback and
\* leaves Signal's timestamp as it was.  A firing invokes the five
\* callbacks together.
C4_SignalRateLimit ==
    [][LET firing == CountCalls(calls', "SignalTaskbar") > 0 IN
        /\ firing =>
              /\ SubSeq(calls', 1, 5) = SignalCallbacks(now, mousePos)
              /\ \A i \in 1..5 :
                    CountCalls(calls', SignalCallbacks(now, mousePos)[i].fn) = 1
              /\ last' = now
              /\ fired.n > 0 => now - fired.at >= MIN_TIME_DELTA
        /\ (fired.n > 0 /\ now - fired.at < MIN_TIME_DELTA) =>
              /\ ~firing
              /\ last' = last
              /\ fired' = fired
    ]_vars

\* the second firing, by a pass of the loop over an event
C4_Witness ==
    /\ fired.n = 2
    /\ fired.at = last
    /\ now = last
    /\ dispatched # <<>>
    /\ CountCalls(calls, "SignalTaskbar") = 1

(***************************************************************************)
(* The claim about the double-click tracker (SpecBorder).                  *)
(***************************************************************************)
\* the step that handles a Button1 press on the move area of a decoration
\* while the tracker is armed by a press on the same decoration
SecondMovePress ==
    /\ event'.type = "ButtonPress"
    /\ event'.ba = "BA_MOVE"
    /\ doubleClickActive
    /\ armedOn = event'.window

\* the second press is within the time and the pixel thresholds of the first
WithinThresholds(ev) ==
    /\ 0 < ev.time - lastClickTime
    /\ ev.time - lastClickTime <= doubleClickSpeed
    /\ ev.x - lastX \in -doubleClickDelta..doubleClickDelta
    /\ ev.y - lastY \in -doubleClickDelta..doubleClickDelta

\* C10 as stated: a second press within the thresholds maximizes once and
\* disarms the tracker; one outside them never maximizes, takes the move
\* path and starts a fresh tracking cycle with its own time and coordinates.
C10_SecondPressOutsideRearms ==
    [][SecondMovePress =>
        LET ev == event'
            np == FindClientByParent(ev.window, managed)
        IN /\ WithinThresholds(ev) =>
                /\ calls' = <<Call("MaximizeClient", np, 0)>>
                /\ ~doubleClickActive'
           /\ ~WithinThresholds(ev) =>
                /\ CountCalls(calls', "MaximizeClient") = 0
                /\ CountCalls(calls', "MoveClient") = 1
                /\ doubleClickActive'
                /\ lastClickTime' = ev.time
                /\ lastX' = ev.x
                /\ lastY' = ev.y
    ]_vars

\* C10 amended: a second press within the thresholds invokes MaximizeClient
\* exactly once and disarms the tracker; one outside the time or the pixel
\* threshold never maximizes and takes the move path: if MoveClient rejects
\* the move again the tracker is re-armed with this press's time and
\* coordinates, and if the move starts the tracker is disarmed.
C10_DoubleClickMaximizesOnce ==
    [][SecondMovePress =>
        LET ev == event'
            np == FindClientByParent(ev.window, managed)
        IN /\ WithinThresholds(ev) =>
                /\ calls' = <<Call("MaximizeClient", np, 0)>>
                /\ ~doubleClickActive'
                /\ lastClickTime' = lastClickTime
           /\ ~WithinThresholds(ev) =>
                /\ CountCalls(calls', "MaximizeClient") = 0
                /\ \/ /\ calls' = <<Call("MoveClient", np, 0)>>
                      /\ doubleClickActive'
                      /\ lastClickTime' = ev.time
                      /\ lastX' = ev.x
                      /\ lastY' = ev.y
                   \/ /\ calls' = <<Call("MoveClient", np, 1)>>
                      /\ ~doubleClickActive'
                      /\ lastClickTime' = lastClickTime
    ]_vars

\* the second of two presses on one decoration has maximized its client
C10_Witness ==
    /\ event.type = "ButtonPress"
    /\ event.ba = "BA_MOVE"
    /\ armedOn = event.window
    /\ calls = <<Call("MaximizeClient", FindClientByParent(event.window, managed), 0)>>
    /\ ~doubleClickActive
    /\ event.time - lastClickTime \in 1..doubleClickSpeed

\* the step that handles a Button1 press on the move area of a decoration
\* while the tracker is armed by a press on another decoration
CrossWindowPress ==
    /\ event'.type = "ButtonPress"
    /\ event'.ba = "BA_MOVE"
    /\ doubleClickActive
    /\ armedOn # event'.window

\* C11: a double-click maximize is triggered on a window only when the press
\* that armed the tracker was on that same window: a press on the move area
\* of B after an arming press on the move area of A never maximizes B.
C11_NoCrossWindowMaximize ==
    [][CrossWindowPress => CountCalls(calls', "MaximizeClient") = 0]_vars

\* the last border button event was the press that armed the tracker
LastWasArmingPress ==
    /\ event.type = "ButtonPress"
    /\ event.ba = "BA_MOVE"
    /\ calls = <<Call("MoveClient", FindClientByParent(event.window, managed), 0)>>

\* C12: the awaiting-second-click flag is false after every border button
\* event that is not the arming press itself, so in every reachable state
\* the flag is true only when the last such event was the arming press.
C12_FlagOnlyAfterArmingPress ==
    doubleClickActive => LastWasArmingPress

(***************************************************************************)
(* The claims about the client messages (SpecMessage).                     *)
(***************************************************************************)
\* the step that handles a client message of type t to a client
MessageStep(t) ==
    /\ event'.type = "ClientMessage"
    /\ event'.message_type = t
    /\ event'.window \in managed

\* C13: a desktop-assignment message with value -1 marks the client sticky;
\* with an index in [0, desktopCount) it first invokes the controller, then
\* clears sticky and assigns the desktop; with any other index the sticky
\* flag and the desktop are unchanged and the controller is not invoked.
C13_DesktopAssignment ==
    [][MessageStep("ATOM_NET_WM_DESKTOP") =>
        LET w == event'.window
            d == event'.l0
        IN /\ d = -1 => "STAT_STICKY" \in status'[w]
           /\ d \in 0..(desktopCount - 1) =>
                /\ w \in controller => calls'[1] = Call("controller", w, 0)
                /\ "STAT_STICKY" \notin status'[w]
                /\ desktop'[w] = d
           /\ d \notin -1..(desktopCount - 1) =>
                /\ status' = status
                /\ desktop' = desktop
                /\ CountCalls(calls', "controller") = 0
    ]_vars

\* the flags a wm-state message can name
StateFlags == {"STAT_STICKY", "STAT_MAXIMIZED", "STAT_SHADED"}

NamesMaximize(ev) ==
    \/ ev.a1 \in {"ATOM_NET_WM_STATE_MAXIMIZED_VERT", "ATOM_NET_WM_STATE_MAXIMIZED_HORZ"}
    \/ ev.a2 \in {"ATOM_NET_WM_STATE_MAXIMIZED_VERT", "ATOM_NET_WM_STATE_MAXIMIZED_HORZ"}

\* the step that handles the message handled just before once more
SecondOfTwo == event' = event /\ hist.n = 1

\* C14: for a wm-state message with action remove (0) or add (1), applying
\* it twice leaves sticky/maximized/shaded as applying it once does, and
\* MaximizeClient is invoked only when the client's maximized flag
\* disagrees with the requested direction.
C14_RemoveAddIdempotent ==
    [][MessageStep("ATOM_NET_WM_STATE") /\ event'.l0 \in {0, 1} =>
        LET w == event'.window
            want == event'.l0 = 1
        IN /\ CountCalls(calls', "MaximizeClient") > 0 =>
                /\ NamesMaximize(event')
                /\ ("STAT_MAXIMIZED" \in status[w]) # want
                /\ CountCalls(calls', "MaximizeClient") = 1
           /\ SecondOfTwo =>
                /\ status'[w] \cap StateFlags = status[w] \cap StateFlags
                /\ CountCalls(calls', "MaximizeClient") = 0
    ]_vars

\* a remove of maximized (and more) handled twice on a maximized client:
\* the first un-maximized it, the second left it so
C14_Witness ==
    /\ hist.n = 2
    /\ event.type = "ClientMessage"
    /\ event.message_type = "ATOM_NET_WM_STATE"
    /\ event.l0 = 0
    /\ NamesMaximize(event)
    /\ "STAT_MAXIMIZED" \in hist.before
    /\ "STAT_MAXIMIZED" \notin status[event.window]
    /\ CountCalls(calls, "MaximizeClient") = 0

\* the flags whose atoms a wm-state message names
NamedFlags(ev) ==
    (IF "ATOM_NET_WM_STATE_STICKY" \in {ev.a1, ev.a2} THEN {"STAT_STICKY"} ELSE {})
    \cup (IF NamesMaximize(ev) THEN {"STAT_MAXIMIZED"} ELSE {})
    \cup (IF "ATOM_NET_WM_STATE_SHADED" \in {ev.a1, ev.a2} THEN {"STAT_SHADED"} ELSE {})

\* A with the members of B flipped
Flip(A, B) == (A \ B) \cup (B \ A)

\* C15: a wm-state message with action toggle (2) flips each named
\* sub-state exactly once whatever its value, a message naming both
\* maximize atoms flipping maximize once; the same toggle applied twice
\* restores the original sticky, maximized and shaded flags.
C15_ToggleFlipsOnce ==
    [][MessageStep("ATOM_NET_WM_STATE") /\ event'.l0 = 2 =>
        LET w == event'.window IN
        /\ status'[w] \cap StateFlags
             = Flip(status[w] \cap StateFlags, NamedFlags(event'))
        /\ status'[w] \ StateFlags = status[w] \ StateFlags
        /\ CountCalls(calls', "MaximizeClient")
             = IF NamesMaximize(event') THEN 1 ELSE 0
        /\ SecondOfTwo => status'[w] = hist.before
    ]_vars

\* a toggle naming both maximize atoms handled twice: maximized again as
\* it was before the two, by one MaximizeClient call each
C15_Witness ==
    /\ hist.n = 2
    /\ event.type = "ClientMessage"
    /\ event.message_type = "ATOM_NET_WM_STATE"
    /\ event.l0 = 2
    /\ event.a1 = "ATOM_NET_WM_STATE_MAXIMIZED_VERT"
    /\ event.a2 = "ATOM_NET_WM_STATE_MAXIMIZED_HORZ"
    /\ "STAT_MAXIMIZED" \in hist.before
    /\ status[event.window] = hist.before
    /\ calls = <<Call("MaximizeClient", event.window, 0)>>

\* the flag values of a legacy-state message equal the client's current
\* values on every bit its mask selects
LegacyFlagsAsCurrent(ev, st) ==
    /\ HasBit(ev.l0, WIN_STATE_STICKY) =>
         (HasBit(ev.l1, WIN_STATE_STICKY) <=> "STAT_STICKY" \in st)
    /\ HasBit(ev.l0, WIN_STATE_HIDDEN) =>
         (HasBit(ev.l1, WIN_STATE_HIDDEN) <=> "STAT_NOLIST" \in st)

\* C16: a legacy-state message whose flag values equal the client's
\* current values of the bits its mask selects leaves sticky and hidden
\* unchanged; any legacy-state message applied twice gives the status of
\* applying it once; a bit the mask does not select is never changed.
C16_LegacyStateIdempotent ==
    [][MessageStep("ATOM_WIN_STATE") =>
        LET w == event'.window
            ev == event'
        IN /\ LegacyFlagsAsCurrent(ev, status[w]) => status'[w] = status[w]
           /\ SecondOfTwo => status'[w] = status[w]
           /\ ~HasBit(ev.l0, WIN_STATE_STICKY) =>
                ("STAT_STICKY" \in status'[w] <=> "STAT_STICKY" \in status[w])
           /\ ~HasBit(ev.l0, WIN_STATE_HIDDEN) =>
                ("STAT_NOLIST" \in status'[w] <=> "STAT_NOLIST" \in status[w])
           /\ HasBit(ev.l0, WIN_STATE_STICKY) =>
                ("STAT_STICKY" \in status'[w] <=> HasBit(ev.l1, WIN_STATE_STICKY))
           /\ HasBit(ev.l0, WIN_STATE_HIDDEN) =>
                ("STAT_NOLIST" \in status'[w] <=> HasBit(ev.l1, WIN_STATE_HIDDEN))
    ]_vars

\* a message selecting only the sticky bit, clear, handled twice on a
\* sticky and hidden client whose hidden flag bit it carries clear: sticky
\* is cleared once and hidden is kept
C16_Witness ==
    /\ hist.n = 2
    /\ event.type = "ClientMessage"
    /\ event.message_type = "ATOM_WIN_STATE"
    /\ event.l0 = WIN_STATE_STICKY
    /\ event.l1 = 0
    /\ {"STAT_STICKY", "STAT_NOLIST"} \subseteq hist.before
    /\ "STAT_STICKY" \notin status[event.window]
    /\ "STAT_NOLIST" \in status[event.window]

\* the message types HandleClientMessage recognizes for a client
RecognizedTypes ==
    {"ATOM_WIN_STATE", "ATOM_WIN_LAYER", "ATOM_WM_CHANGE_STATE",
     "ATOM_NET_ACTIVE_WINDOW", "ATOM_NET_WM_DESKTOP", "ATOM_NET_CLOSE_WINDOW",
     "ATOM_NET_MOVERESIZE_WINDOW", "ATOM_NET_WM_STATE"}

\* the step that handles a message to a client which is of no recognized
\* type, or a wm-state message whose action is none of 0, 1, 2
MalformedMessageStep ==
    /\ event'.type = "ClientMessage"
    /\ event'.window \in managed
    /\ \/ event'.message_type \notin RecognizedTypes
       \/ /\ event'.message_type = "ATOM_NET_WM_STATE"
          /\ event'.l0 \notin {0, 1, 2}

\* C18: a client message of an unrecognized type to a managed client, and a
\* wm-state message with an action code outside {0, 1, 2}, are dropped: no
\* client's status flags, geometry, desktop or layer change and no
\* controller (nor anything else) is called.
C18_MalformedDropped ==
    [][MalformedMessageStep =>
        /\ status' = status
        /\ mapped' = mapped
        /\ geom' = geom
        /\ desktop' = desktop
        /\ layer' = layer
        /\ calls' = <<>>
    ]_vars

\* a wm-state message with action 3 naming maximize and sticky was handled
\* for a client with a controller and nothing was called
C18_Witness ==
    /\ event.type = "ClientMessage"
    /\ event.message_type = "ATOM_NET_WM_STATE"
    /\ event.l0 = 3
    /\ NamedFlags(event) = {"STAT_STICKY", "STAT_MAXIMIZED"}
    /\ event.window \in controller
    /\ status[event.window] # {}
    /\ calls = <<>>

\* the step that handles a request mutating a client's geometry or
\* lifecycle state: a configure request, a change-state message, a desktop
\* reassignment or an extended move-resize
MutatingRequestStep ==
    /\ event'.window \in managed
    /\ \/ event'.type = "ConfigureRequest"
       \/ /\ event'.type = "ClientMessage"
          /\ \/ event'.message_type \in {"ATOM_WM_CHANGE_STATE",
                                         "ATOM_NET_MOVERESIZE_WINDOW"}
             \/ /\ event'.message_type = "ATOM_NET_WM_DESKTOP"
                /\ event'.l0 # -1

\* C19: whenever such a request is handled while the window has a
\* controller, the controller is invoked, before the handler modifies the
\* client record or calls anything else, for every such handler.
C19_ControllerFirst ==
    [][MutatingRequestStep /\ event'.window \in controller =>
        /\ calls' # <<>>
        /\ calls'[1] = Call("controller", event'.window, 0)
    ]_vars

(***************************************************************************)
(* The claim about the mouse position cache (Spec).                        *)
(***************************************************************************)
\* the events that carry root-relative pointer coordinates
PointerEventTypes ==
    {"MotionNotify", "ButtonPress", "ButtonRelease", "EnterNotify",
     "LeaveNotify"}

\* the step in which ProcessEvent handles the event WaitForEvent returned
ProcessEventStep == pc = "returned" /\ pc' # "returned"

\* C17: after handling any event that carries root-relative pointer
\* coordinates the mouse position cache equals the root coordinates of
\* that event.
C17_MouseCacheFollowsPointerEvents ==
    [][ProcessEventStep /\ event'.type \in PointerEventTypes =>
        mousePos' = event'.pos
    ]_vars

(***************************************************************************)
(* The claim about the size constraints (SpecGeometry).                    *)
(***************************************************************************)
\* a width and height the window's size hints allow
SatisfiesHints(g) ==
    /\ g.width \in HintMin..HintMax
    /\ g.height \in HintMin..HintMax

\* the sizes given to the display for the content window w in the calls cs
ContentSizes(cs, w) ==
    { IF cs[i].fn = "JXConfigureWindow" THEN cs[i].a.g ELSE cs[i].a :
        i \in { j \in 1..Len(cs) :
                  /\ cs[j].fn \in {"JXConfigureWindow", "JXMoveResizeWindow"}
                  /\ cs[j].w = w } }

\* C20: after a configure request that changes the record, or an extended
\* move-resize request, on a managed window, the width and height stored
\* in the record and sent to the display satisfy the size constraints.
C20_StoredSizeSatisfiesHints ==
    [][(ConfigureStep /\ geom' # geom) \/ MoveResizeStep =>
        LET w == event'.window IN
        /\ SatisfiesHints(geom'[w])
        /\ \A g \in ContentSizes(calls', w) : SatisfiesHints(g)
    ]_vars

(***************************************************************************)
(* The claim about the decoration's place (SpecGeometry).                  *)
(***************************************************************************)
\* what separates the recorded position gm[w] from the origin the calls cs
\* give the decoration of w, axis by axis.  JXMoveResizeWindow places both
\* axes; JXConfigureWindow places the axes its value mask flags.
DecorationOffsets(cs, gm) ==
    UNION { LET c == cs[i]
                w == CHOOSE v \in Windows : Parent(v) = c.w
            IN IF c.fn = "JXMoveResizeWindow"
               THEN { <<"x", gm[w].x - c.a.x>>, <<"y", gm[w].y - c.a.y>> }
               ELSE (IF HasBit(c.a.mask, CWX)
                     THEN { <<"x", gm[w].x - c.a.g.x>> } ELSE {})
                    \cup
                    (IF HasBit(c.a.mask, CWY)
                     THEN { <<"y", gm[w].y - c.a.g.y>> } ELSE {}) :
            i \in { j \in 1..Len(cs) :
                      /\ cs[j].fn \in {"JXConfigureWindow",
                                       "JXMoveResizeWindow"}
                      /\ cs[j].w \in Parents } }

\* C23: the decoration's display position has one fixed relation to the
\* recorded position across the geometry handlers: a request that places
\* the decoration right after another that placed it uses the same offset
\* from the recorded (x, y) on every axis both place.
C23_OneDecorationOffset ==
    [][\A o \in DecorationOffsets(calls, geom),
          n \in DecorationOffsets(calls', geom') :
            o[1] = n[1] => o[2] = n[2]
    ]_vars

(***************************************************************************)
(* The claims about property notifications, map requests and button        *)
(* events (SpecWindow).                                                    *)
(***************************************************************************)
\* the step in which WaitForEvent reads an event of type t and dispatches it
DeliveryStep(t) == pc \in {"wait", "loop"} /\ event'.type = t

\* the properties that hold a window's name, size hints and icon
NameHintsIcon ==
    {"XA_WM_NAME", "ATOM_NET_WM_NAME", "XA_WM_NORMAL_HINTS",
     "ATOM_NET_WM_ICON"}

\* C21: a property-change notification on a managed window flagged as a
\* window-manager dialog never triggers a border redraw, whichever property
\* changed, and is reported as unhandled so that the fallback chain is
\* offered it; for any other managed window a change of name, size hints
\* or icon triggers exactly one border redraw plus a taskbar and a pager
\* refresh and is reported as handled.
C21_DialogPropertyNoRedraw ==
    [][DeliveryStep("PropertyNotify") =>
        LET np == FindClientByWindow(event'.window, managed) IN
        np # NoClient =>
            IF "STAT_WMDIALOG" \in status[np]
            THEN /\ CountCalls(calls', "DrawBorder") = 0
                 /\ ~primaryHandled'
                 /\ offered' # <<>>
            ELSE /\ primaryHandled'
                 /\ event'.atom \in NameHintsIcon =>
                      /\ CountCalls(calls', "DrawBorder") = 1
                      /\ CountCalls(calls', "UpdateTaskBar") = 1
                      /\ CountCalls(calls', "UpdatePager") = 1
    ]_vars

\* the calls of cs that synchronize with the server, grab or release it,
\* adopt a window or map one, in the order they were made
AdoptionCalls(cs) ==
    LET IsAdoptionCall(c) ==
            c.fn \in {"JXSync", "JXGrabServer", "AddClientWindow",
                      "JXMapWindow", "JXUngrabServer"}
        sel == SelectSeq(cs, IsAdoptionCall)
    IN [i \in 1..Len(sel) |-> sel[i].fn]

\* C22: when HandleMapRequest adopts a window that is not yet managed, the
\* connection is synced and the server grabbed before the adoption and the
\* grab is released before the handler returns, whether the adoption
\* succeeds or fails (and then the window is mapped); a map request for a
\* managed or a swallowed window never grabs the server; the server is
\* never left grabbed between two events.
C22_AdoptionBracketsGrab ==
    [][/\ DeliveryStep("MapRequest") =>
            IF ~event'.swallowed
               /\ FindClientByWindow(event'.window, managed) = NoClient
            THEN AdoptionCalls(calls') =
                    IF event'.window \in managed'
                    THEN << "JXSync", "JXGrabServer", "AddClientWindow",
                            "JXSync", "JXUngrabServer" >>
                    ELSE << "JXSync", "JXGrabServer", "AddClientWindow",
                            "JXMapWindow", "JXSync", "JXUngrabServer" >>
            ELSE CountCalls(calls', "JXGrabServer") = 0
       /\ ~serverGrabbed'
    ]_vars

\* a map request for window 1, which has no client, was handled and
\* AddClientWindow did not adopt it
C22_Witness ==
    /\ event.type = "MapRequest"
    /\ event.window = 1
    /\ 1 \notin managed
    /\ CountCalls(calls, "JXGrabServer") = 1
    /\ CountCalls(calls, "JXUngrabServer") = 1
    /\ CountCalls(calls, "JXMapWindow") = 1
    /\ ~serverGrabbed

\* C24: every button event delivered on the primary window of a managed
\* client results in exactly one pointer replay before HandleButtonEvent
\* returns, for every button, event type and modifier state; button events
\* on a decoration window or on the root window never issue a replay.
C24_OneReplayPerContentButton ==
    [][ProcessEventStep /\ event.type \in ButtonTypes =>
        /\ event.window \in managed =>
             CountCalls(calls', "JXAllowEvents") = 1
        /\ event.window \in Parents \cup {rootWindow} =>
             CountCalls(calls', "JXAllowEvents") = 0
    ]_vars

\* a release of button 6 with the modifier held, on the content window of
\* a managed client, was handled and replayed
C24_Witness ==
    /\ pc = "wait"
    /\ event.type = "ButtonRelease"
    /\ event.window \in managed
    /\ event.button = 6
    /\ event.mod1
    /\ CountCalls(calls, "JXAllowEvents") = 1

====
